---- MODULE Spec2Model ----
(***************************************************************************)
(* Golf buddy finder: the buddy-match state machine, the conversation      *)
(* table and the messaging gateway, as the server handlers implement them  *)
(* on top of the relational tables of the schema.                          *)
(*                                                                         *)
(* Every table is a sequence of rows in insertion order; a serial primary  *)
(* key is the position of the row (rows are never deleted and no insert    *)
(* of these handlers can fail once its checks have passed).  Timestamps    *)
(* are readings of a clock: `now` is the reading of the last call that     *)
(* wrote, and the next call that writes runs at a later instant, whose     *)
(* reading stamps every row it writes.                                     *)
(***************************************************************************)
EXTENDS Integers, Sequences, FiniteSets, TLC

\* ------------------------------------------------------------------ bounds
MaxClock == 3      \* last reading of the clock: the calls that write
MaxMessages == 3   \* rows of messagesTable a getMessages call may find

VARIABLES
  users,          \* ids of the rows of usersTable
  matches,        \* buddyMatchesTable
  conversations,  \* conversationsTable
  messages,       \* messagesTable
  now,            \* the last reading of the clock (defaultNow(), new Date())
  last,           \* the last handler call: its name, arguments and outcome
  inflight,       \* the calls under way, one per request slot
  profiles,       \* usersTable: the row of every user id
  courses,        \* coursesTable
  favorites,      \* userFavoriteCoursesTable
  timePrefs       \* userTimePreferencesTable

\* the tables of the profiles, which the match and message handlers leave
\* alone
profileTables == <<profiles, courses, favorites, timePrefs>>

\* what the handlers that run as one step never write
others == <<inflight, profileTables>>

vars == <<users, matches, conversations, messages, now, last, others>>

\* ------------------------------------------------------------ input values
\* the rows of usersTable when the handlers below start to run (createUser
\* gives the serial ids in order; no handler below writes usersTable)
RegisteredUsers == {1, 2, 3}
\* ids a caller may pass: every registered user and one id of no user,
\* every row of a table and one id of no row
UserIds == RegisteredUsers \cup {Cardinality(RegisteredUsers) + 1}
MatchIds == 1..(Len(matches) + 1)
ConvIds == 1..(Len(conversations) + 1)
Contents == {"hello"}
NewStatuses == {"accepted", "declined"}

\* --------------------------------------------------------- error messages
NoError == "none"
ErrSelfMatch == "Cannot create buddy match with yourself"
ErrUsersNotFound == "One or both users not found"
ErrMatchExists == "Buddy match already exists between these users"
ErrNotPending == "Buddy match not found or not in pending status"
ErrNotParticipant == "Conversation not found or sender is not a participant"
ErrSelfConversation == "Cannot create conversation with yourself"
ErrUsersDoNotExist == "One or both users do not exist"
ErrConversationNotFound == "Conversation not found"
ErrUserIdNotFound == "User with id ${input.id} not found"
ErrUniqueViolation == "duplicate key value violates unique constraint"
ErrCourseExists == "A course with this name already exists at this location"
ErrUserNotFound == "User not found"
ErrCourseNotFound == "Course not found"
ErrAlreadyFavorite == "Course is already in user's favorites"
ErrPreferenceUserNotFound == "User with id ${input.user_id} not found"
ErrPreferenceExists ==
  "Time preference '${input.time_preference}' already exists for user ${input.user_id}"

\* ------------------------------------------------------------ request slots
\* the requests the server works on at a time
Procs == {1, 2}

\* a slot with no call under way; otherwise op is the handler, pc the
\* position of its next statement and row what its write has returned
Idle == [pc |-> 0, op |-> "", c |-> 0, s |-> 0, content |-> "", row |-> <<>>]

\* ------------------------------------------------------------ user profiles
\* a row of usersTable, as far as searchBuddies reads it; a handicap is <<>>
\* when it is NULL and <<h>> when it is h
UserRow(u, location, skill_level, handicap) ==
  [id |-> u, location |-> location, skill_level |-> skill_level,
   handicap |-> handicap]

\* the profiles while the match and message handlers run: no search is made
Beginners == [u \in RegisteredUsers |-> UserRow(u, "SF", "beginner", <<>>)]

\* ----------------------------------------------------------------- helpers
Min(a, b) == IF a < b THEN a ELSE b
Max(a, b) == IF a < b THEN b ELSE a

\* the rows of a table, as a set
Rows(table) == {table[k] : k \in 1..Len(table)}

\* the numbers of a set, the smallest first
Ordered(S) ==
  [i \in 1..Cardinality(S) |->
    CHOOSE x \in S : Cardinality({y \in S : y < x}) = i - 1]

\* the record of a call: `ret` is <<row>> when the handler returns a row, the
\* list when it returns a list, and <<>> when it throws
Call(op, args, error, ret) ==
  [op |-> op, args |-> args, error |-> error, ret |-> ret]

Init ==
  /\ users = RegisteredUsers
  /\ matches = <<>>
  /\ conversations = <<>>
  /\ messages = <<>>
  /\ now = 0
  /\ last = Call("init", <<>>, NoError, <<>>)
  /\ inflight = [p \in Procs |-> Idle]
  /\ profiles = Beginners
  /\ courses = <<>>
  /\ favorites = <<>>
  /\ timePrefs = <<>>

\* what defaultNow() / new Date() return in the next call that writes
Readings == {t \in {now + 1} : t <= MaxClock}

\* ------------------------------------------------------- createBuddyMatch
\* SELECT FROM users WHERE id = r OR id = p
UsersFound(r, p) == {u \in users : u = r \/ u = p}

\* mutant: the lookup in the direction of the request only
ExistingMatch_SameDirection(r, p) ==
  SelectSeq(matches, LAMBDA m : m.requester_id = r /\ m.recipient_id = p)

\* SELECT FROM buddy_matches WHERE (requester, recipient) = (r, p) OR = (p, r)
ExistingMatch(r, p) ==
  SelectSeq(matches, LAMBDA m :
    \/ (m.requester_id = r /\ m.recipient_id = p)
    \/ (m.requester_id = p /\ m.recipient_id = r))

\* mutant: the comparison of the two ids left out
CreateBuddyMatchError_NoSelfCheck(r, p) ==
  IF Cardinality(UsersFound(r, p)) # Cardinality({r, p}) THEN ErrUsersNotFound
  ELSE IF Len(ExistingMatch(r, p)) > 0 THEN ErrMatchExists
  ELSE NoError

\* mutant: the users are looked up before the two ids are compared
CreateBuddyMatchError_UsersFirst(r, p) ==
  IF Cardinality(UsersFound(r, p)) # 2 THEN ErrUsersNotFound
  ELSE IF r = p THEN ErrSelfMatch
  ELSE IF Len(ExistingMatch(r, p)) > 0 THEN ErrMatchExists
  ELSE NoError

\* the checks of createBuddyMatch, in the order the handler makes them
CreateBuddyMatchError(r, p) ==
  IF r = p THEN ErrSelfMatch
  ELSE IF Cardinality(UsersFound(r, p)) # 2 THEN ErrUsersNotFound
  ELSE IF Len(ExistingMatch(r, p)) > 0 THEN ErrMatchExists
  ELSE NoError

\* mutant: the two ids of the inserted row exchanged
NewMatch_Exchanged(r, p, t) ==
  [id |-> Len(matches) + 1, requester_id |-> p, recipient_id |-> r,
   status |-> "pending", updated_at |-> t]

\* the inserted row (created_at, which no handler reads, is left out)
NewMatch(r, p, t) ==
  [id |-> Len(matches) + 1, requester_id |-> r, recipient_id |-> p,
   status |-> "pending", updated_at |-> t]

createBuddyMatch(r, p) ==
  LET err == CreateBuddyMatchError(r, p) IN
  IF err # NoError
  THEN /\ last' = Call("createBuddyMatch", <<r, p>>, err, <<>>)
       /\ UNCHANGED <<others, users, matches, conversations, messages, now>>
  ELSE /\ \E t \in Readings :
            /\ now' = t
            /\ matches' = Append(matches, NewMatch(r, p, t))
            /\ last' = Call("createBuddyMatch", <<r, p>>, NoError,
                            <<NewMatch(r, p, t)>>)
       /\ UNCHANGED <<others, users, conversations, messages>>

\* ------------------------------------------------- updateBuddyMatchStatus
\* mutant: the lookup by id alone
PendingMatch_AnyStatus(i) ==
  SelectSeq(matches, LAMBDA m : m.id = i)

\* mutant: the lookup by status alone
PendingMatch_AnyId(i) ==
  SelectSeq(matches, LAMBDA m : m.status = "pending")

\* SELECT FROM buddy_matches WHERE id = i AND status = 'pending'
PendingMatch(i) ==
  SelectSeq(matches, LAMBDA m : m.id = i /\ m.status = "pending")

\* SELECT FROM conversations WHERE user1_id = a AND user2_id = b
ExistingConversation(a, b) ==
  SelectSeq(conversations, LAMBDA c : c.user1_id = a /\ c.user2_id = b)

\* mutant: the second lookup repeats the first one
ExistingConversationReverse_NotExchanged(a, b) ==
  SelectSeq(conversations, LAMBDA c : c.user1_id = a /\ c.user2_id = b)

\* the second lookup of the acceptance path: the two ids exchanged
ExistingConversationReverse(a, b) ==
  SelectSeq(conversations, LAMBDA c : c.user1_id = b /\ c.user2_id = a)

\* whether the acceptance of `match` inserts a conversation
AcceptInserts(match) ==
  /\ Len(ExistingConversation(match.requester_id, match.recipient_id)) = 0
  /\ Len(ExistingConversationReverse(match.requester_id, match.recipient_id)) = 0

\* the (user1_id, user2_id) the acceptance path inserts
AcceptedConversationUsers(match) == <<match.requester_id, match.recipient_id>>

NewConversation(u1, u2, t) ==
  [id |-> Len(conversations) + 1, user1_id |-> u1, user2_id |-> u2,
   created_at |-> t, updated_at |-> t]

\* mutant: the update without its WHERE clause
SetMatchStatus_EveryRow(i, s, t) ==
  [k \in 1..Len(matches) |->
    [matches[k] EXCEPT !.status = s, !.updated_at = t]]

\* UPDATE buddy_matches SET status = s, updated_at = t WHERE id = i
SetMatchStatus(i, s, t) ==
  [k \in 1..Len(matches) |->
    IF matches[k].id = i
    THEN [matches[k] EXCEPT !.status = s, !.updated_at = t]
    ELSE matches[k]]

updateBuddyMatchStatus(i, s) ==
  LET existingMatch == PendingMatch(i) IN
  IF Len(existingMatch) = 0
  THEN /\ last' = Call("updateBuddyMatchStatus", <<i, s>>, ErrNotPending, <<>>)
       /\ UNCHANGED <<others, users, matches, conversations, messages, now>>
  ELSE LET match == existingMatch[1]
           pair == AcceptedConversationUsers(match)
       IN \E t \in Readings :
            /\ matches' = SetMatchStatus(i, s, t)
            /\ last' = Call("updateBuddyMatchStatus", <<i, s>>, NoError,
                            SelectSeq(SetMatchStatus(i, s, t),
                                      LAMBDA m : m.id = i))
            /\ IF s = "accepted" /\ AcceptInserts(match)
               THEN conversations' =
                      Append(conversations,
                             NewConversation(pair[1], pair[2], t))
               ELSE UNCHANGED conversations
            /\ now' = t
            /\ UNCHANGED <<others, users, messages>>

\* ----------------------------------------------------- createConversation
\* mutant: the ids in the order of the call
Normalized_AsGiven(a, b) == <<a, b>>

\* the ids createConversation looks up and stores: the smaller one first
Normalized(a, b) == <<Min(a, b), Max(a, b)>>

\* mutant: one found user is enough
CreateConversationError_OneUserFound(a, b) ==
  IF a = b THEN ErrSelfConversation
  ELSE IF Cardinality(UsersFound(a, b)) = 0 THEN ErrUsersDoNotExist
  ELSE NoError

\* the checks of createConversation: the two ids, then the two users
CreateConversationError(a, b) ==
  IF a = b THEN ErrSelfConversation
  ELSE IF Cardinality(UsersFound(a, b)) # 2 THEN ErrUsersDoNotExist
  ELSE NoError

createConversation(a, b) ==
  LET err == CreateConversationError(a, b)
      pair == Normalized(a, b)
      existing == ExistingConversation(pair[1], pair[2])
  IN
  IF err # NoError
  THEN /\ last' = Call("createConversation", <<a, b>>, err, <<>>)
       /\ UNCHANGED <<others, users, matches, conversations, messages, now>>
  ELSE IF Len(existing) > 0
  THEN /\ last' = Call("createConversation", <<a, b>>, NoError, <<existing[1]>>)
       /\ UNCHANGED <<others, users, matches, conversations, messages, now>>
  ELSE /\ \E t \in Readings :
            /\ now' = t
            /\ conversations' =
                 Append(conversations, NewConversation(pair[1], pair[2], t))
            /\ last' = Call("createConversation", <<a, b>>, NoError,
                            <<NewConversation(pair[1], pair[2], t)>>)
       /\ UNCHANGED <<others, users, matches, messages>>

\* ------------------------------------------------------------ sendMessage
\* mutant: the lookup by conversation id alone
ParticipantConversation_AnySender(c, s) ==
  SelectSeq(conversations, LAMBDA row : row.id = c)

\* mutant: the id and the participation joined by OR
ParticipantConversation_IdOrSender(c, s) ==
  SelectSeq(conversations, LAMBDA row :
    row.id = c \/ (row.user1_id = s \/ row.user2_id = s))

\* SELECT FROM conversations WHERE id = c AND (user1_id = s OR user2_id = s)
ParticipantConversation(c, s) ==
  SelectSeq(conversations, LAMBDA row :
    row.id = c /\ (row.user1_id = s \/ row.user2_id = s))

NewMessage(c, s, content, t) ==
  [id |-> Len(messages) + 1, conversation_id |-> c, sender_id |-> s,
   content |-> content, status |-> "sent", created_at |-> t]

\* UPDATE conversations SET updated_at = t WHERE id = c
TouchConversation(c, t) ==
  [k \in 1..Len(conversations) |->
    IF conversations[k].id = c
    THEN [conversations[k] EXCEPT !.updated_at = t]
    ELSE conversations[k]]

sendMessage(c, s, content) ==
  IF Len(ParticipantConversation(c, s)) = 0
  THEN /\ last' = Call("sendMessage", <<c, s>>, ErrNotParticipant, <<>>)
       /\ UNCHANGED <<others, users, matches, conversations, messages, now>>
  ELSE /\ \E t \in Readings :
            /\ messages' = Append(messages, NewMessage(c, s, content, t))
            /\ last' = Call("sendMessage", <<c, s>>, NoError,
                            <<NewMessage(c, s, content, t)>>)
            /\ conversations' = TouchConversation(c, t)
            /\ now' = t
       /\ UNCHANGED <<others, users, matches>>

Next ==
  \/ \E r \in UserIds, p \in UserIds : createBuddyMatch(r, p)
  \/ \E i \in MatchIds, s \in NewStatuses : updateBuddyMatchStatus(i, s)
  \/ \E a \in UserIds, b \in UserIds : createConversation(a, b)
  \/ \E c \in ConvIds, s \in UserIds, content \in Contents :
       sendMessage(c, s, content)

Spec == Init /\ [][Next]_vars

\* ------------------------------------- sendMessage, statement by statement
\* mutant: the conversation is touched before the message is inserted
SendSteps_UpdateFirst == <<"update", "insert">>

\* the two writes of sendMessage, in the order of the handler
SendSteps == <<"insert", "update">>

\* the SELECT of the conversation and the throw that follows it
SendCheck(p, c, s, content) ==
  /\ inflight[p].pc = 0
  /\ IF Len(ParticipantConversation(c, s)) = 0
     THEN /\ last' = Call("sendMessage", <<c, s>>, ErrNotParticipant, <<>>)
          /\ UNCHANGED inflight
     ELSE /\ inflight' = [inflight EXCEPT ![p] =
               [pc |-> 1, op |-> "sendMessage", c |-> c, s |-> s,
                content |-> content, row |-> <<>>]]
          /\ UNCHANGED last
  /\ UNCHANGED <<profileTables, users, matches, conversations, messages, now>>

\* the end of a write: on to the next one, or `return result[0]`
SendAdvance(p, row) ==
  IF inflight[p].pc = Len(SendSteps)
  THEN /\ inflight' = [inflight EXCEPT ![p] = Idle]
       /\ last' = Call("sendMessage", <<inflight[p].c, inflight[p].s>>,
                       NoError, row)
  ELSE /\ inflight' = [inflight EXCEPT ![p].pc = inflight[p].pc + 1,
                                        ![p].row = row]
       /\ UNCHANGED last

\* INSERT INTO messages ... RETURNING
SendInsert(p) ==
  /\ inflight[p].op = "sendMessage"
  /\ inflight[p].pc \in 1..Len(SendSteps)
  /\ SendSteps[inflight[p].pc] = "insert"
  /\ \E t \in Readings :
       LET row == NewMessage(inflight[p].c, inflight[p].s,
                             inflight[p].content, t)
       IN /\ messages' = Append(messages, row)
          /\ now' = t
          /\ SendAdvance(p, <<row>>)
  /\ UNCHANGED <<profileTables, users, matches, conversations>>

\* UPDATE conversations SET updated_at = new Date() WHERE id = c
SendUpdate(p) ==
  /\ inflight[p].op = "sendMessage"
  /\ inflight[p].pc \in 1..Len(SendSteps)
  /\ SendSteps[inflight[p].pc] = "update"
  /\ \E t \in Readings :
       /\ conversations' = TouchConversation(inflight[p].c, t)
       /\ now' = t
       /\ SendAdvance(p, inflight[p].row)
  /\ UNCHANGED <<profileTables, users, matches, messages>>

\* a conversation of users 1 and 2 is stored when the requests come in
InitSend ==
  /\ users = RegisteredUsers
  /\ matches = <<>>
  /\ conversations = <<[id |-> 1, user1_id |-> 1, user2_id |-> 2,
                        created_at |-> 0, updated_at |-> 0]>>
  /\ messages = <<>>
  /\ now = 0
  /\ last = Call("init", <<>>, NoError, <<>>)
  /\ inflight = [p \in Procs |-> Idle]
  /\ profiles = Beginners
  /\ courses = <<>>
  /\ favorites = <<>>
  /\ timePrefs = <<>>

NextSend ==
  \/ \E p \in Procs, c \in ConvIds, s \in UserIds, content \in Contents :
       SendCheck(p, c, s, content)
  \/ \E p \in Procs : SendInsert(p)
  \/ \E p \in Procs : SendUpdate(p)

SpecSend == InitSend /\ [][NextSend]_vars

\* ------------------------------------------------------- getConversations
\* the orders in which n rows can come back
Perms(n) ==
  {f \in [1..n -> 1..n] : \A i \in 1..n, j \in 1..n : i # j => f[i] # f[j]}

\* SELECT FROM conversations WHERE user1_id = u OR user2_id = u
ConversationsOf(u) ==
  SelectSeq(conversations, LAMBDA c : c.user1_id = u \/ c.user2_id = u)

\* mutant: the oldest updated_at first
OrderByUpdatedAtDesc_Ascending(rows) ==
  {[i \in 1..Len(rows) |-> rows[f[i]]] :
     f \in {g \in Perms(Len(rows)) :
              \A i \in 1..(Len(rows) - 1) :
                rows[g[i]].updated_at <= rows[g[i + 1]].updated_at}}

\* ORDER BY updated_at DESC: every order the database may return, rows with
\* the same updated_at coming in any order
OrderByUpdatedAtDesc(rows) ==
  {[i \in 1..Len(rows) |-> rows[f[i]]] :
     f \in {g \in Perms(Len(rows)) :
              \A i \in 1..(Len(rows) - 1) :
                rows[g[i]].updated_at >= rows[g[i + 1]].updated_at}}

getConversations(u) ==
  /\ \E result \in OrderByUpdatedAtDesc(ConversationsOf(u)) :
       last' = Call("getConversations", <<u>>, NoError, result)
  /\ UNCHANGED <<others, users, matches, conversations, messages, now>>

\* two conversations of user 1, inserted by one statement and so stamped
\* with one reading of the clock, are stored when the calls come in
InitInbox ==
  /\ users = RegisteredUsers
  /\ matches = <<>>
  /\ conversations = <<[id |-> 1, user1_id |-> 1, user2_id |-> 2,
                        created_at |-> 0, updated_at |-> 0],
                       [id |-> 2, user1_id |-> 1, user2_id |-> 3,
                        created_at |-> 0, updated_at |-> 0]>>
  /\ messages = <<>>
  /\ now = 0
  /\ last = Call("init", <<>>, NoError, <<>>)
  /\ inflight = [p \in Procs |-> Idle]
  /\ profiles = Beginners
  /\ courses = <<>>
  /\ favorites = <<>>
  /\ timePrefs = <<>>

NextInbox ==
  \/ \E a \in UserIds, b \in UserIds : createConversation(a, b)
  \/ \E c \in ConvIds, s \in UserIds, content \in Contents :
       sendMessage(c, s, content)
  \/ \E u \in UserIds : getConversations(u)

SpecInbox == InitInbox /\ [][NextInbox]_vars

\* ------------------------------------------------------------ getMessages
\* an optional input: <<>> when it is left out, <<v>> when it is v
Optional(values) == {<<>>} \cup {<<v>> : v \in values}

\* opt ?? default
OrElse(opt, default) == IF opt = <<>> THEN default ELSE opt[1]

DefaultLimit == 100
DefaultOffset == 0

\* the limits and offsets the input schema lets through
Limits == Optional(1..MaxMessages)
Offsets == Optional(0..MaxMessages)

\* SELECT FROM messages WHERE conversation_id = c
MessagesOf(c) == SelectSeq(messages, LAMBDA m : m.conversation_id = c)

\* ORDER BY created_at ASC: every order the database may return, rows with
\* the same created_at coming in any order
OrderByCreatedAtAsc(rows) ==
  {[i \in 1..Len(rows) |-> rows[f[i]]] :
     f \in {g \in Perms(Len(rows)) :
              \A i \in 1..(Len(rows) - 1) :
                rows[g[i]].created_at <= rows[g[i + 1]].created_at}}

\* mutant: the offset counted within the first `limit` rows
Page_OffsetWithinLimit(rows, limit, offset) ==
  SubSeq(rows, Min(offset, Len(rows)) + 1, Min(limit, Len(rows)))

\* LIMIT limit OFFSET offset
Page(rows, limit, offset) ==
  SubSeq(rows, Min(offset, Len(rows)) + 1, Min(offset + limit, Len(rows)))

getMessages(c, limit, offset) ==
  /\ IF Len(SelectSeq(conversations, LAMBDA row : row.id = c)) = 0
     THEN last' = Call("getMessages", <<c, limit, offset>>,
                       ErrConversationNotFound, <<>>)
     ELSE \E results \in OrderByCreatedAtAsc(MessagesOf(c)) :
            last' = Call("getMessages", <<c, limit, offset>>, NoError,
                         Page(results, OrElse(limit, DefaultLimit),
                              OrElse(offset, DefaultOffset)))
  /\ UNCHANGED <<others, users, matches, conversations, messages, now>>

\* the updated_at of conversation c once the rows of `table` have been sent
TouchedAt(table, c) ==
  LET own == {k \in 1..Len(table) : table[k].conversation_id = c}
  IN IF own = {} THEN 0
     ELSE CHOOSE t \in {table[k].created_at : k \in own} :
            \A k \in own : table[k].created_at <= t

\* a table that sendMessage calls of user 1 to two conversations have filled:
\* ids in the order of the inserts, no created_at before an earlier one,
\* every conversation touched by its last message
SentMessages ==
  UNION {{[i \in 1..n |->
            [id |-> i, conversation_id |-> conv[i], sender_id |-> 1,
             content |-> "hello", status |-> "sent", created_at |-> at[i]]] :
          conv \in [1..n -> {1, 2}],
          at \in {f \in [1..n -> 1..MaxClock] :
                   \A i \in 1..(n - 1) : f[i] <= f[i + 1]}} :
         n \in 0..MaxMessages}

InitMessages ==
  /\ users = RegisteredUsers
  /\ matches = <<>>
  /\ messages \in SentMessages
  /\ conversations = <<[id |-> 1, user1_id |-> 1, user2_id |-> 2,
                        created_at |-> 0,
                        updated_at |-> TouchedAt(messages, 1)],
                       [id |-> 2, user1_id |-> 1, user2_id |-> 3,
                        created_at |-> 0,
                        updated_at |-> TouchedAt(messages, 2)]>>
  /\ now = Max(TouchedAt(messages, 1), TouchedAt(messages, 2))
  /\ last = Call("init", <<>>, NoError, <<>>)
  /\ inflight = [p \in Procs |-> Idle]
  /\ profiles = Beginners
  /\ courses = <<>>
  /\ favorites = <<>>
  /\ timePrefs = <<>>

NextMessages ==
  \E c \in ConvIds, limit \in Limits, offset \in Offsets :
    getMessages(c, limit, offset)

SpecMessages == InitMessages /\ [][NextMessages]_vars

\* ---------------------------------------------------------- searchBuddies
\* what a row of usersTable may hold (createUserInputSchema: a location has
\* at least one character)
Locations == {"SF", "LA"}
SkillLevels == {"beginner", "pro"}
Handicaps == {<<>>, <<0>>, <<3>>, <<-7>>}
CourseIds == {1}
TimePreferences == {"morning"}

\* the inputs searchBuddiesInputSchema lets through: every field optional,
\* any string as location, any number as course_id and max_handicap_diff
SearchInputs ==
  [location : Optional({"", "SF"}),
   skill_level : Optional({"pro"}),
   max_handicap_diff : Optional({-1, 0, 7}),
   course_id : Optional({0} \cup CourseIds),
   time_preference : Optional(TimePreferences)]

\* if (x) for an optional string and an optional number
TruthyString(opt) == opt # <<>> /\ opt[1] # ""
TruthyNumber(opt) == opt # <<>> /\ opt[1] # 0

\* mutant: the handicap compared as it is stored
Abs_Signed(x) == x

Abs(x) == IF x < 0 THEN -x ELSE x

\* the `conditions` array of the main query
Conditions(input) ==
  (IF TruthyString(input.location) THEN <<"location">> ELSE <<>>)
  \o (IF TruthyString(input.skill_level) THEN <<"skill_level">> ELSE <<>>)
  \o (IF input.max_handicap_diff # <<>> THEN <<"handicap">> ELSE <<>>)

\* one pushed condition, evaluated on a row
Holds(condition, row, input) ==
  CASE condition = "location" -> row.location = input.location[1]
    [] condition = "skill_level" -> row.skill_level = input.skill_level[1]
    [] condition = "handicap" ->
         \/ row.handicap = <<>>
         \/ Abs(row.handicap[1]) <= input.max_handicap_diff[1]

\* mutant: the conditions joined by OR
WhereCondition_Or(row, input) ==
  \/ Len(Conditions(input)) = 0
  \/ \E i \in 1..Len(Conditions(input)) :
       Holds(Conditions(input)[i], row, input)

\* whereCondition: and(...conditions), or no WHERE for an empty array
WhereCondition(row, input) ==
  \A i \in 1..Len(Conditions(input)) : Holds(Conditions(input)[i], row, input)

\* SELECT FROM users [WHERE whereCondition] (the rows come in id order here:
\* the order is the database's and no caller relies on it)
MainQuery(input) ==
  SelectSeq([i \in 1..Cardinality(users) |-> profiles[i]],
            LAMBDA row : WhereCondition(row, input))

\* the favorite-course step: the candidates that have a row for course_id
CourseFilter(rows, input) ==
  IF TruthyNumber(input.course_id) /\ Len(rows) > 0
  THEN LET userIds == {rows[i].id : i \in 1..Len(rows)}
           courseUserIds ==
             {f.user_id : f \in {g \in Rows(favorites) :
                 g.course_id = input.course_id[1] /\ g.user_id \in userIds}}
       IN SelectSeq(rows, LAMBDA row : row.id \in courseUserIds)
  ELSE rows

\* the time-preference step: the candidates that have a row for the slot
TimePreferenceFilter(rows, input) ==
  IF TruthyString(input.time_preference) /\ Len(rows) > 0
  THEN LET userIds == {rows[i].id : i \in 1..Len(rows)}
           timePreferenceUserIds ==
             {f.user_id : f \in {g \in Rows(timePrefs) :
                 /\ g.time_preference = input.time_preference[1]
                 /\ g.user_id \in userIds}}
       IN SelectSeq(rows, LAMBDA row : row.id \in timePreferenceUserIds)
  ELSE rows

\* the list searchBuddies returns
FilteredResults(input) ==
  TimePreferenceFilter(CourseFilter(MainQuery(input), input), input)

searchBuddies(input) ==
  /\ last' = Call("searchBuddies", <<input>>, NoError, FilteredResults(input))
  /\ UNCHANGED <<others, users, matches, conversations, messages, now>>

\* the golfers a search runs over
Golfers == {1, 2}

\* any profiles of the golfers, any favorite courses and time preferences
InitSearch ==
  /\ users = Golfers
  /\ profiles \in
       {[u \in Golfers |-> UserRow(u, loc[u], skill[u], hcp[u])] :
          loc \in [Golfers -> Locations],
          skill \in [Golfers -> SkillLevels],
          hcp \in [Golfers -> Handicaps]}
  /\ courses = <<>>
  /\ favorites \in
       {[i \in 1..Len(us) |->
           [id |-> i, user_id |-> us[i], course_id |-> c, created_at |-> 0]] :
          us \in {Ordered(S) : S \in SUBSET Golfers}, c \in CourseIds}
  /\ timePrefs \in
       {[i \in 1..Len(us) |->
           [id |-> i, user_id |-> us[i], time_preference |-> slot,
            created_at |-> 0]] :
          us \in {Ordered(S) : S \in SUBSET Golfers},
          slot \in TimePreferences}
  /\ matches = <<>>
  /\ conversations = <<>>
  /\ messages = <<>>
  /\ now = 0
  /\ last = Call("init", <<>>, NoError, <<>>)
  /\ inflight = [p \in Procs |-> Idle]

\* a search writes nothing: one call is made on every database state
NextSearch ==
  /\ last.op = "init"
  /\ \E input \in SearchInputs : searchBuddies(input)

SpecSearch == InitSearch /\ [][NextSearch]_vars

\* --------------------------------------------------- createUser, updateUser
\* usersTable in these handlers: `users` holds the ids and profiles[u] the
\* row of u with every column but created_at, which no handler writes twice.
\* A nullable column is <<>> when it is NULL and <<v>> when it is v.
Emails == {"a@x.io", "b@x.io"}
Usernames == {"ann", "bob"}

\* the registrations drawn: the email and the username vary
CreateUserInputs ==
  [email : Emails, username : Usernames, full_name : {"Golfer"},
   skill_level : {"beginner"}, handicap : {<<>>}, location : {"SF"},
   bio : {<<>>}, home_course : {<<>>}]

\* the columns updateUser may set, each one optional in its input
UpdatableFields ==
  {"email", "username", "full_name", "skill_level", "handicap", "location",
   "bio", "home_course"}

\* SELECT FROM users WHERE email = input.email OR username = input.username
ExistingUsers(input) ==
  {u \in users : \/ profiles[u].email = input.email
                 \/ profiles[u].username = input.username}

\* the duplicateFields array of createUser
DuplicateFields(input) ==
  (IF \E u \in ExistingUsers(input) : profiles[u].email = input.email
   THEN <<"email">> ELSE <<>>)
  \o (IF \E u \in ExistingUsers(input) : profiles[u].username = input.username
      THEN <<"username">> ELSE <<>>)

\* `User with this ${duplicateFields.join(' and ')} already exists`
ErrUserExists(duplicateFields) ==
  CASE duplicateFields = <<"email">> -> "User with this email already exists"
    [] duplicateFields = <<"username">> ->
         "User with this username already exists"
    [] duplicateFields = <<"email", "username">> ->
         "User with this email and username already exists"

\* the inserted row
NewUser(input, t) ==
  [id |-> Cardinality(users) + 1, email |-> input.email,
   username |-> input.username, full_name |-> input.full_name,
   skill_level |-> input.skill_level, handicap |-> input.handicap,
   location |-> input.location, bio |-> input.bio,
   home_course |-> input.home_course, updated_at |-> t]

createUser(input) ==
  IF ExistingUsers(input) # {}
  THEN /\ last' = Call("createUser", <<input>>,
                       ErrUserExists(DuplicateFields(input)), <<>>)
       /\ UNCHANGED <<inflight, courses, favorites, timePrefs, users, profiles,
                      matches, conversations, messages, now>>
  ELSE /\ \E t \in Readings :
            /\ now' = t
            /\ users' = users \cup {NewUser(input, t).id}
            /\ profiles' = [u \in users \cup {NewUser(input, t).id} |->
                             IF u \in users THEN profiles[u]
                             ELSE NewUser(input, t)]
            /\ last' = Call("createUser", <<input>>, NoError,
                            <<NewUser(input, t)>>)
       /\ UNCHANGED <<inflight, courses, favorites, timePrefs, matches, conversations,
                      messages>>

\* updateData without updated_at: the supplied fields and their values
UpdateData(input) ==
  [field \in {f \in UpdatableFields : input[f] # <<>>} |-> input[field][1]]

\* mutant: a column declared without .unique()
Taken_NoConstraint(field, value, id) == FALSE

\* whether a row other than that of `id` holds `value` in a unique column
Taken(field, value, id) ==
  \E u \in users \ {id} : profiles[u][field] = value

\* whether the UPDATE runs into the unique index of email or of username
UniqueViolation(input) ==
  \E field \in {"email", "username"} \cap DOMAIN UpdateData(input) :
    Taken(field, UpdateData(input)[field], input.id)

\* mutant: every updatable column written, NULL for the ones left out
SetColumns_AllFields(row, data, t) ==
  [column \in DOMAIN row |->
    IF column = "updated_at" THEN t
    ELSE IF column \in DOMAIN data THEN data[column]
    ELSE IF column \in {"handicap", "bio", "home_course"} THEN <<>>
    ELSE row[column]]

\* UPDATE users SET ...updateData WHERE id = row.id
SetColumns(row, data, t) ==
  [column \in DOMAIN row |->
    IF column = "updated_at" THEN t
    ELSE IF column \in DOMAIN data THEN data[column]
    ELSE row[column]]

updateUser(input) ==
  IF input.id \notin users
  THEN /\ last' = Call("updateUser", <<input>>, ErrUserIdNotFound, <<>>)
       /\ UNCHANGED <<inflight, courses, favorites, timePrefs, users, profiles,
                      matches, conversations, messages, now>>
  ELSE IF UniqueViolation(input)
  THEN /\ last' = Call("updateUser", <<input>>, ErrUniqueViolation, <<>>)
       /\ UNCHANGED <<inflight, courses, favorites, timePrefs, users, profiles,
                      matches, conversations, messages, now>>
  ELSE /\ \E t \in Readings :
            LET row == SetColumns(profiles[input.id], UpdateData(input), t)
            IN /\ now' = t
               /\ profiles' = [profiles EXCEPT ![input.id] = row]
               /\ last' = Call("updateUser", <<input>>, NoError, <<row>>)
       /\ UNCHANGED <<inflight, courses, favorites, timePrefs, users, matches,
                      conversations, messages>>

\* the updates drawn while users register: of the email and the username
CredentialUpdates ==
  [id : 1..(Cardinality(users) + 1), email : Optional(Emails),
   username : Optional(Usernames), full_name : {<<>>}, skill_level : {<<>>},
   handicap : {<<>>}, location : {<<>>}, bio : {<<>>}, home_course : {<<>>}]

InitUsers ==
  /\ users = {}
  /\ profiles = <<>>
  /\ courses = <<>>
  /\ favorites = <<>>
  /\ timePrefs = <<>>
  /\ matches = <<>>
  /\ conversations = <<>>
  /\ messages = <<>>
  /\ now = 0
  /\ last = Call("init", <<>>, NoError, <<>>)
  /\ inflight = [p \in Procs |-> Idle]

NextUsers ==
  \/ \E input \in CreateUserInputs : createUser(input)
  \/ \E input \in CredentialUpdates : updateUser(input)

SpecUsers == InitUsers /\ [][NextUsers]_vars

\* the updates drawn for one call on a table of two users: every field left
\* out or supplied, the nullable ones also supplied as null
ProfileUpdates ==
  [id : 1..3, email : Optional({"b@x.io", "c@x.io"}),
   username : Optional({"cat"}), full_name : Optional({"Pro Golfer"}),
   skill_level : Optional({"pro"}), handicap : Optional({<<>>, <<9>>}),
   location : Optional({"LA"}), bio : Optional({<<>>, <<"new bio">>}),
   home_course : Optional({<<>>, <<"dunes">>})]

\* two registered users, the nullable columns of the first one set or not
InitUpdate ==
  /\ users = {1, 2}
  /\ profiles \in
       {<<[id |-> 1, email |-> "a@x.io", username |-> "ann",
           full_name |-> "Golfer", skill_level |-> "beginner",
           handicap |-> handicap, location |-> "SF", bio |-> bio,
           home_course |-> home_course, updated_at |-> 0],
          [id |-> 2, email |-> "b@x.io", username |-> "bob",
           full_name |-> "Golfer", skill_level |-> "beginner",
           handicap |-> <<5>>, location |-> "SF", bio |-> <<"bio">>,
           home_course |-> <<"links">>, updated_at |-> 0]>> :
          handicap \in {<<>>, <<12>>}, bio \in {<<>>, <<"bio">>},
          home_course \in {<<>>, <<"links">>}}
  /\ courses = <<>>
  /\ favorites = <<>>
  /\ timePrefs = <<>>
  /\ matches = <<>>
  /\ conversations = <<>>
  /\ messages = <<>>
  /\ now = 0
  /\ last = Call("init", <<>>, NoError, <<>>)
  /\ inflight = [p \in Procs |-> Idle]

\* one update on every table drawn
NextUpdate ==
  /\ last.op = "init"
  /\ \E input \in ProfileUpdates : updateUser(input)

SpecUpdate == InitUpdate /\ [][NextUpdate]_vars

\* ------------------------------------------ createCourse, addFavoriteCourse
CourseNames == {"Pebble", "Dunes"}
CourseLocations == {"SF", "LA"}

\* the courses drawn: the name and the location vary
CreateCourseInputs ==
  [name : CourseNames, location : CourseLocations, description : {<<>>},
   par : {72}]

\* mutant: the lookup by name alone
ExistingCourse_SameName(input) ==
  SelectSeq(courses, LAMBDA c : c.name = input.name)

\* SELECT FROM courses WHERE name = input.name AND location = input.location
ExistingCourse(input) ==
  SelectSeq(courses, LAMBDA c :
    c.name = input.name /\ c.location = input.location)

NewCourse(input, t) ==
  [id |-> Len(courses) + 1, name |-> input.name, location |-> input.location,
   description |-> input.description, par |-> input.par, created_at |-> t]

createCourse(input) ==
  IF Len(ExistingCourse(input)) > 0
  THEN /\ last' = Call("createCourse", <<input>>, ErrCourseExists, <<>>)
       /\ UNCHANGED <<others, users, matches, conversations, messages, now>>
  ELSE /\ \E t \in Readings :
            /\ now' = t
            /\ courses' = Append(courses, NewCourse(input, t))
            /\ last' = Call("createCourse", <<input>>, NoError,
                            <<NewCourse(input, t)>>)
       /\ UNCHANGED <<inflight, profiles, favorites, timePrefs, users,
                      matches, conversations, messages>>

\* the ids a caller may pass for a course: every row and one id of no row
CourseRefs == 1..(Len(courses) + 1)

\* the favorites drawn
AddFavoriteCourseInputs == [user_id : UserIds, course_id : CourseRefs]

\* mutant: the lookup by course alone
ExistingFavorite_AnyUser(input) ==
  SelectSeq(favorites, LAMBDA f : f.course_id = input.course_id)

\* SELECT FROM user_favorite_courses WHERE user_id = .. AND course_id = ..
ExistingFavorite(input) ==
  SelectSeq(favorites, LAMBDA f :
    f.user_id = input.user_id /\ f.course_id = input.course_id)

\* the checks of addFavoriteCourse, in the order the handler makes them
AddFavoriteCourseError(input) ==
  IF input.user_id \notin users THEN ErrUserNotFound
  ELSE IF Len(SelectSeq(courses, LAMBDA c : c.id = input.course_id)) = 0
  THEN ErrCourseNotFound
  ELSE IF Len(ExistingFavorite(input)) > 0 THEN ErrAlreadyFavorite
  ELSE NoError

NewFavorite(input, t) ==
  [id |-> Len(favorites) + 1, user_id |-> input.user_id,
   course_id |-> input.course_id, created_at |-> t]

addFavoriteCourse(input) ==
  IF AddFavoriteCourseError(input) # NoError
  THEN /\ last' = Call("addFavoriteCourse", <<input>>,
                       AddFavoriteCourseError(input), <<>>)
       /\ UNCHANGED <<others, users, matches, conversations, messages, now>>
  ELSE /\ \E t \in Readings :
            /\ now' = t
            /\ favorites' = Append(favorites, NewFavorite(input, t))
            /\ last' = Call("addFavoriteCourse", <<input>>, NoError,
                            <<NewFavorite(input, t)>>)
       /\ UNCHANGED <<inflight, profiles, courses, timePrefs, users, matches,
                      conversations, messages>>

NextCourses ==
  \/ \E input \in CreateCourseInputs : createCourse(input)
  \/ \E input \in AddFavoriteCourseInputs : addFavoriteCourse(input)

\* the registered users and no course yet: Init
SpecCourses == Init /\ [][NextCourses]_vars

\* -------------------------------------------------------- addTimePreference
timePreferenceEnum == {"morning", "afternoon", "evening", "weekend"}

AddTimePreferenceInputs ==
  [user_id : UserIds, time_preference : timePreferenceEnum]

\* mutant: the lookup that compares the preference with another column
ExistingPreference_OtherUser(input) ==
  SelectSeq(timePrefs, LAMBDA r :
    r.user_id # input.user_id /\ r.time_preference = input.time_preference)

\* SELECT FROM user_time_preferences
\*   WHERE user_id = input.user_id AND time_preference = input.time_preference
ExistingPreference(input) ==
  SelectSeq(timePrefs, LAMBDA r :
    r.user_id = input.user_id /\ r.time_preference = input.time_preference)

\* the checks of addTimePreference, in the order the handler makes them
AddTimePreferenceError(input) ==
  IF input.user_id \notin users THEN ErrPreferenceUserNotFound
  ELSE IF Len(ExistingPreference(input)) > 0 THEN ErrPreferenceExists
  ELSE NoError

NewPreference(input, t) ==
  [id |-> Len(timePrefs) + 1, user_id |-> input.user_id,
   time_preference |-> input.time_preference, created_at |-> t]

addTimePreference(input) ==
  IF AddTimePreferenceError(input) # NoError
  THEN /\ last' = Call("addTimePreference", <<input>>,
                       AddTimePreferenceError(input), <<>>)
       /\ UNCHANGED <<others, users, matches, conversations, messages, now>>
  ELSE /\ \E t \in Readings :
            /\ now' = t
            /\ timePrefs' = Append(timePrefs, NewPreference(input, t))
            /\ last' = Call("addTimePreference", <<input>>, NoError,
                            <<NewPreference(input, t)>>)
       /\ UNCHANGED <<inflight, profiles, courses, favorites, users, matches,
                      conversations, messages>>

\* the registered users, the first of them with one preference already
InitPreferences ==
  /\ users = RegisteredUsers
  /\ matches = <<>>
  /\ conversations = <<>>
  /\ messages = <<>>
  /\ now = 0
  /\ last = Call("init", <<>>, NoError, <<>>)
  /\ inflight = [p \in Procs |-> Idle]
  /\ profiles = Beginners
  /\ courses = <<>>
  /\ favorites = <<>>
  /\ timePrefs = <<[id |-> 1, user_id |-> 1, time_preference |-> "morning",
                    created_at |-> 0]>>

NextPreferences == \E input \in AddTimePreferenceInputs : addTimePreference(input)

SpecPreferences == InitPreferences /\ [][NextPreferences]_vars

\* -------- createBuddyMatch, updateBuddyMatchStatus, statement by statement
\* the checks of createBuddyMatch up to the SELECT of the existing match (the
\* users read before it never change here), and the throw that follows them
MatchLookup(p, r, q) ==
  /\ inflight[p].pc = 0
  /\ IF CreateBuddyMatchError(r, q) # NoError
     THEN /\ last' = Call("createBuddyMatch", <<r, q>>,
                          CreateBuddyMatchError(r, q), <<>>)
          /\ UNCHANGED inflight
     ELSE /\ inflight' = [inflight EXCEPT ![p] =
               [pc |-> 1, op |-> "createBuddyMatch", r |-> r, q |-> q]]
          /\ UNCHANGED last
  /\ UNCHANGED <<profileTables, users, matches, conversations, messages, now>>

\* mutant: the insert under a unique index on the unordered pair
MatchInsert_UniquePair(p) ==
  /\ inflight[p].op = "createBuddyMatch"
  /\ inflight[p].pc = 1
  /\ IF Len(ExistingMatch(inflight[p].r, inflight[p].q)) > 0
     THEN /\ last' = Call("createBuddyMatch",
                          <<inflight[p].r, inflight[p].q>>,
                          ErrUniqueViolation, <<>>)
          /\ UNCHANGED <<matches, now>>
     ELSE \E t \in Readings :
            LET row == NewMatch(inflight[p].r, inflight[p].q, t)
            IN /\ matches' = Append(matches, row)
               /\ now' = t
               /\ last' = Call("createBuddyMatch",
                               <<inflight[p].r, inflight[p].q>>, NoError,
                               <<row>>)
  /\ inflight' = [inflight EXCEPT ![p] = Idle]
  /\ UNCHANGED <<profileTables, users, conversations, messages>>

\* INSERT INTO buddy_matches ... RETURNING, and `return result[0]`
MatchInsert(p) ==
  /\ inflight[p].op = "createBuddyMatch"
  /\ inflight[p].pc = 1
  /\ \E t \in Readings :
       LET row == NewMatch(inflight[p].r, inflight[p].q, t)
       IN /\ matches' = Append(matches, row)
          /\ now' = t
          /\ last' = Call("createBuddyMatch", <<inflight[p].r, inflight[p].q>>,
                          NoError, <<row>>)
  /\ inflight' = [inflight EXCEPT ![p] = Idle]
  /\ UNCHANGED <<profileTables, users, conversations, messages>>

NextRace ==
  \/ \E p \in Procs, r \in UserIds, q \in UserIds : MatchLookup(p, r, q)
  \/ \E p \in Procs : MatchInsert(p)

\* the registered users and no match yet: Init
SpecRace == Init /\ [][NextRace]_vars

\* mutant: the conversation is looked up and inserted before the status is
\* written
StatusSteps_ConversationFirst ==
  <<"select", "selectReverse", "insert", "update">>

\* the statements of updateBuddyMatchStatus after the SELECT of the match, in
\* the order of the handler; the last three are those of the accepted branch
StatusSteps == <<"update", "select", "selectReverse", "insert">>

\* the statements a call with status s runs
StatusStepsOf(s) ==
  IF s = "accepted" THEN StatusSteps
  ELSE SelectSeq(StatusSteps, LAMBDA step : step = "update")

\* the SELECT of the pending match and the throw that follows it
StatusLookup(p, i, s) ==
  /\ inflight[p].pc = 0
  /\ IF Len(PendingMatch(i)) = 0
     THEN /\ last' = Call("updateBuddyMatchStatus", <<i, s>>, ErrNotPending,
                          <<>>)
          /\ UNCHANGED inflight
     ELSE /\ inflight' = [inflight EXCEPT ![p] =
               [pc |-> 1, op |-> "updateBuddyMatchStatus", i |-> i, s |-> s,
                match |-> PendingMatch(i)[1], row |-> <<>>,
                found |-> <<>>]]
          /\ UNCHANGED last
  /\ UNCHANGED <<profileTables, users, matches, conversations, messages, now>>

\* the call in slot p is at the statement `step`
StatusAt(p, step) ==
  /\ inflight[p].op = "updateBuddyMatchStatus"
  /\ inflight[p].pc \in 1..Len(StatusStepsOf(inflight[p].s))
  /\ StatusStepsOf(inflight[p].s)[inflight[p].pc] = step

\* the end of a statement: on to the next one, or `return updatedMatch[0]`
StatusAdvance(p, row, found) ==
  IF inflight[p].pc = Len(StatusStepsOf(inflight[p].s))
  THEN /\ inflight' = [inflight EXCEPT ![p] = Idle]
       /\ last' = Call("updateBuddyMatchStatus",
                       <<inflight[p].i, inflight[p].s>>, NoError, row)
  ELSE /\ inflight' = [inflight EXCEPT ![p].pc = inflight[p].pc + 1,
                                        ![p].row = row,
                                        ![p].found = found]
       /\ UNCHANGED last

\* UPDATE buddy_matches SET status, updated_at WHERE id = i RETURNING
StatusUpdate(p) ==
  /\ StatusAt(p, "update")
  /\ \E t \in Readings :
       /\ matches' = SetMatchStatus(inflight[p].i, inflight[p].s, t)
       /\ now' = t
       /\ StatusAdvance(p, SelectSeq(SetMatchStatus(inflight[p].i,
                                                    inflight[p].s, t),
                                     LAMBDA m : m.id = inflight[p].i),
                        inflight[p].found)
  /\ UNCHANGED <<profileTables, users, conversations, messages>>

\* the SELECT of the conversation (requester, recipient)
StatusSelect(p) ==
  /\ StatusAt(p, "select")
  /\ StatusAdvance(p, inflight[p].row,
       inflight[p].found \o
         <<Len(ExistingConversation(inflight[p].match.requester_id,
                                    inflight[p].match.recipient_id))>>)
  /\ UNCHANGED <<profileTables, users, matches, conversations, messages, now>>

\* the SELECT of the conversation (recipient, requester)
StatusSelectReverse(p) ==
  /\ StatusAt(p, "selectReverse")
  /\ StatusAdvance(p, inflight[p].row,
       inflight[p].found \o
         <<Len(ExistingConversationReverse(inflight[p].match.requester_id,
                                           inflight[p].match.recipient_id))>>)
  /\ UNCHANGED <<profileTables, users, matches, conversations, messages, now>>

\* INSERT INTO conversations, when neither SELECT has found a row
StatusInsert(p) ==
  /\ StatusAt(p, "insert")
  /\ IF \A k \in 1..Len(inflight[p].found) : inflight[p].found[k] = 0
     THEN \E t \in Readings :
            LET pair == AcceptedConversationUsers(inflight[p].match)
            IN /\ conversations' =
                    Append(conversations, NewConversation(pair[1], pair[2], t))
               /\ now' = t
     ELSE UNCHANGED <<conversations, now>>
  /\ StatusAdvance(p, inflight[p].row, inflight[p].found)
  /\ UNCHANGED <<profileTables, users, matches, messages>>

\* the call in slot p ends before its remaining statements: what it has
\* written stays, no handler undoes it
Abandon(p) ==
  /\ inflight[p].pc > 0
  /\ inflight' = [inflight EXCEPT ![p] = Idle]
  /\ UNCHANGED <<profileTables, users, matches, conversations, messages, now,
                 last>>

\* a pending match of users 1 and 2 and a conversation of users 1 and 3 are
\* stored when the requests come in
InitSteps ==
  /\ users = RegisteredUsers
  /\ matches = <<[id |-> 1, requester_id |-> 1, recipient_id |-> 2,
                  status |-> "pending", updated_at |-> 0]>>
  /\ conversations = <<[id |-> 1, user1_id |-> 1, user2_id |-> 3,
                        created_at |-> 0, updated_at |-> 0]>>
  /\ messages = <<>>
  /\ now = 0
  /\ last = Call("init", <<>>, NoError, <<>>)
  /\ inflight = [p \in Procs |-> Idle]
  /\ profiles = Beginners
  /\ courses = <<>>
  /\ favorites = <<>>
  /\ timePrefs = <<>>

NextSteps ==
  \/ \E p \in Procs, i \in MatchIds, s \in NewStatuses : StatusLookup(p, i, s)
  \/ \E p \in Procs : StatusUpdate(p)
  \/ \E p \in Procs : StatusSelect(p)
  \/ \E p \in Procs : StatusSelectReverse(p)
  \/ \E p \in Procs : StatusInsert(p)
  \/ \E p \in Procs, c \in ConvIds, s \in UserIds, content \in Contents :
       SendCheck(p, c, s, content)
  \/ \E p \in Procs : SendInsert(p)
  \/ \E p \in Procs : SendUpdate(p)
  \/ \E p \in Procs : Abandon(p)

SpecSteps == InitSteps /\ [][NextSteps]_vars

\* ================================================================== claims
\* the rows of a conversations table between a and b, in either order
ConvsOfPair(table, a, b) ==
  SelectSeq(table, LAMBDA c :
    \/ (c.user1_id = a /\ c.user2_id = b)
    \/ (c.user1_id = b /\ c.user2_id = a))

\* the rows of the buddy_matches table between a and b, in either direction
MatchesOfPair(a, b) ==
  SelectSeq(matches, LAMBDA m :
    \/ (m.requester_id = a /\ m.recipient_id = b)
    \/ (m.requester_id = b /\ m.recipient_id = a))

\* C1: every Conversation row has user1_id < user2_id, whichever handler
\* wrote it (createConversation or the acceptance of a buddy match).
C1_ConversationsNormalized ==
  \A k \in 1..Len(conversations) :
    conversations[k].user1_id < conversations[k].user2_id

\* C2: at most one Conversation row exists for each unordered pair of users,
\* a row (A,B) and a row (B,A) counting as the same pair.
C2_OneConversationPerPair ==
  \A a \in users, b \in users :
    a < b => Len(ConvsOfPair(conversations, a, b)) <= 1

\* C3: at most one BuddyMatch row exists per unordered pair of users, and a
\* createBuddyMatch(r,p) called while a match between r and p exists, in
\* either direction and in any status, fails with the duplicate-match error
\* and inserts nothing.
C3_OneMatchPerPair ==
  /\ [](\A a \in users, b \in users : Len(MatchesOfPair(a, b)) <= 1)
  /\ [][(/\ last'.op = "createBuddyMatch"
         /\ last'.args[1] # last'.args[2]
         /\ Len(MatchesOfPair(last'.args[1], last'.args[2])) > 0)
        => (last'.error = ErrMatchExists /\ matches' = matches)]_vars

\* C3 witness: a request in the opposite direction of an accepted or declined
\* match has been refused as a duplicate.
C3_Witness ==
  /\ last.op = "createBuddyMatch"
  /\ last.error = ErrMatchExists
  /\ \E k \in 1..Len(matches) :
       /\ matches[k].requester_id = last.args[2]
       /\ matches[k].recipient_id = last.args[1]
       /\ matches[k].status # "pending"

\* C4: a BuddyMatch is created pending and leaves pending at most once: a row
\* that is accepted or declined never changes again, every later
\* updateBuddyMatchStatus on its id fails with the not-found-or-not-pending
\* error, and no step sets a status back to pending.
C4_StatusOneShot ==
  [][/\ Len(matches') >= Len(matches)
     /\ \A k \in 1..Len(matches') :
          IF k > Len(matches)
          THEN matches'[k].status = "pending"
          ELSE /\ matches'[k].id = matches[k].id
               /\ matches[k].status # "pending" => matches'[k] = matches[k]
               /\ matches'[k].status = "pending" => matches[k].status = "pending"
               /\ (/\ last'.op = "updateBuddyMatchStatus"
                   /\ last'.args[1] = matches[k].id
                   /\ matches[k].status # "pending")
                  => last'.error = ErrNotPending]_vars

\* C4 witness: a decline of an accepted match has been refused.
C4_Witness ==
  /\ last.op = "updateBuddyMatchStatus"
  /\ last.error = ErrNotPending
  /\ last.args[2] = "declined"
  /\ \E k \in 1..Len(matches) :
       matches[k].id = last.args[1] /\ matches[k].status = "accepted"

\* C5: a successful updateBuddyMatchStatus(id, accepted) on a match between
\* A and B, from a state with at most one Conversation row for {A,B}, ends
\* with exactly one row for {A,B}: one row is inserted if there was none,
\* and the table is unchanged if a row (A,B) or (B,A) was there.
C5_AcceptYieldsOneConversation ==
  [][(/\ last'.op = "updateBuddyMatchStatus"
      /\ last'.error = NoError
      /\ last'.args[2] = "accepted")
     => LET a == last'.ret[1].requester_id
            b == last'.ret[1].recipient_id
            before == ConvsOfPair(conversations, a, b)
            after == ConvsOfPair(conversations', a, b)
        IN Len(before) <= 1 =>
             /\ Len(after) = 1
             /\ Len(before) = 1 => conversations' = conversations
             /\ Len(before) = 0 =>
                  /\ Len(conversations') = Len(conversations) + 1
                  /\ SubSeq(conversations', 1, Len(conversations)) = conversations
    ]_vars

\* C5 witness: a match has been accepted whose pair already had its
\* conversation, stored with the recipient as user1_id, and no row was added.
C5_Witness ==
  /\ last.op = "updateBuddyMatchStatus"
  /\ last.error = NoError
  /\ last.args[2] = "accepted"
  /\ Len(ConvsOfPair(conversations, last.ret[1].requester_id,
                     last.ret[1].recipient_id)) = 1
  /\ \E k \in 1..Len(conversations) :
       /\ conversations[k].user1_id = last.ret[1].recipient_id
       /\ conversations[k].user2_id = last.ret[1].requester_id
       /\ conversations[k].created_at < last.ret[1].updated_at

\* the rows of a conversations table stored as (min(a,b), max(a,b))
NormalizedRows(table, a, b) ==
  SelectSeq(table, LAMBDA c :
    c.user1_id = Min(a, b) /\ c.user2_id = Max(a, b))

\* C6: for registered users A # B, createConversation(A,B) and
\* createConversation(B,A) return the same row, however often and in
\* whichever order they are called: the returned row is the only row stored
\* as (min, max), rows keep their id and their users for ever, and a call
\* that finds the row inserts nothing and returns it with its created_at and
\* updated_at as they were.
C6_CreateConversationSymmetric ==
  [][/\ Len(conversations') >= Len(conversations)
     /\ \A k \in 1..Len(conversations) :
          /\ conversations'[k].id = conversations[k].id
          /\ conversations'[k].user1_id = conversations[k].user1_id
          /\ conversations'[k].user2_id = conversations[k].user2_id
     /\ (last'.op = "createConversation" /\ last'.error = NoError)
        => LET a == last'.args[1]
               b == last'.args[2]
               old == NormalizedRows(conversations, a, b)
           IN /\ NormalizedRows(conversations', a, b) = last'.ret
              /\ Len(last'.ret) = 1
              /\ Len(old) > 0 =>
                   /\ conversations' = conversations
                   /\ last'.ret = old
    ]_vars

\* C6 witness: createConversation called with the larger id first has
\* returned a row made by an earlier call and since touched by a message.
C6_Witness ==
  /\ last.op = "createConversation"
  /\ last.error = NoError
  /\ last.args[1] > last.args[2]
  /\ last.ret[1].created_at < last.ret[1].updated_at
  /\ last.ret[1].updated_at <= now
  /\ last.ret[1] = conversations[last.ret[1].id]

\* whether sender s is a participant of an existing conversation c
IsParticipant(c, s) ==
  \E k \in 1..Len(conversations) :
    /\ conversations[k].id = c
    /\ (conversations[k].user1_id = s \/ conversations[k].user2_id = s)

\* C7: sendMessage(c, s, content) fails with the same not-participant error
\* when conversation c does not exist and when s is neither user1_id nor
\* user2_id of c; the failing call inserts no Message and leaves every
\* conversation (its updated_at included) unchanged.
C7_SendRejectsNonParticipant ==
  [][(last'.op = "sendMessage" /\ ~IsParticipant(last'.args[1], last'.args[2]))
     => /\ last'.error = ErrNotParticipant
        /\ messages' = messages
        /\ conversations' = conversations]_vars

\* C7 witness: a registered user who is no participant of an existing
\* conversation has been refused.
C7_Witness ==
  /\ last.op = "sendMessage"
  /\ last.error = ErrNotParticipant
  /\ last.args[2] \in users
  /\ \E k \in 1..Len(conversations) : conversations[k].id = last.args[1]

\* C8: every Message row refers to an existing Conversation, and its
\* sender_id is the user1_id or the user2_id of that Conversation.
C8_SenderIsParticipant ==
  \A k \in 1..Len(messages) :
    IsParticipant(messages[k].conversation_id, messages[k].sender_id)

\* C8 witness: messages of both participants of a conversation are stored.
C8_Witness ==
  \E j \in 1..Len(messages), k \in 1..Len(messages), c \in 1..Len(conversations) :
    /\ messages[j].conversation_id = conversations[c].id
    /\ messages[k].conversation_id = conversations[c].id
    /\ messages[j].sender_id = conversations[c].user1_id
    /\ messages[k].sender_id = conversations[c].user2_id

\* whether a pending match with id i exists
IsPending(i) ==
  \E k \in 1..Len(matches) : matches[k].id = i /\ matches[k].status = "pending"

\* C9: updateBuddyMatchStatus called with an id of no match or of a match
\* that is not pending fails with the same error in both cases, and changes
\* no BuddyMatch row and no Conversation row.
C9_UpdateFailureChangesNothing ==
  [][(last'.op = "updateBuddyMatchStatus" /\ ~IsPending(last'.args[1]))
     => /\ last'.error = ErrNotPending
        /\ matches' = matches
        /\ conversations' = conversations]_vars

\* C9 witness: the acceptance of a declined match has been refused and the
\* conversations table is still empty.
C9_Witness ==
  /\ last.op = "updateBuddyMatchStatus"
  /\ last.error = ErrNotPending
  /\ last.args[2] = "accepted"
  /\ conversations = <<>>
  /\ \E k \in 1..Len(matches) :
       matches[k].id = last.args[1] /\ matches[k].status = "declined"

\* C10: createBuddyMatch(r,p) fails with the self-match error if r = p (also
\* for an r of no user); otherwise with the user-not-found error if r or p is
\* no user; otherwise with the duplicate-match error if a match between r and
\* p exists in either direction; a failing call leaves the table unchanged.
C10_CreateMatchErrorOrder ==
  [][last'.op = "createBuddyMatch"
     => LET r == last'.args[1]
            p == last'.args[2]
            known == r \in users /\ p \in users
        IN /\ r = p => last'.error = ErrSelfMatch
           /\ (r # p /\ ~known) => last'.error = ErrUsersNotFound
           /\ (r # p /\ known /\ Len(MatchesOfPair(r, p)) > 0)
                => last'.error = ErrMatchExists
           /\ last'.error # NoError => matches' = matches]_vars

\* C10 witness: a request of an unregistered id to itself has been refused
\* with the self-match error.
C10_Witness ==
  /\ last.op = "createBuddyMatch"
  /\ last.args[1] = last.args[2]
  /\ last.args[1] \notin users
  /\ last.error = ErrSelfMatch

\* C11: createConversation(a,b) fails with the self-conversation error when
\* a = b, and with the user-not-found error when a # b and a or b is no
\* user; in both cases no Conversation row is inserted or changed.
C11_CreateConversationErrors ==
  [][last'.op = "createConversation"
     => LET a == last'.args[1]
            b == last'.args[2]
        IN /\ a = b => last'.error = ErrSelfConversation
           /\ (a # b /\ ~(a \in users /\ b \in users))
                => last'.error = ErrUsersDoNotExist
           /\ (a = b \/ ~(a \in users /\ b \in users))
                => conversations' = conversations]_vars

\* C11 witness: a call with a registered user and an id of no user has been
\* refused while a conversation of that user is stored.
C11_Witness ==
  /\ last.op = "createConversation"
  /\ last.error = ErrUsersDoNotExist
  /\ last.args[1] \in users
  /\ last.args[2] \notin users
  /\ \E k \in 1..Len(conversations) :
       conversations[k].user1_id = last.args[1]

\* C12: every BuddyMatch row has requester_id # recipient_id and every
\* Conversation row has user1_id # user2_id, whatever createBuddyMatch,
\* updateBuddyMatchStatus and createConversation calls were made.
C12_NoSelfRows ==
  /\ \A k \in 1..Len(matches) :
       matches[k].requester_id # matches[k].recipient_id
  /\ \A k \in 1..Len(conversations) :
       conversations[k].user1_id # conversations[k].user2_id

\* C12 witness: an accepted match and the conversation its acceptance
\* inserted, with the users of the match, are stored.
C12_Witness ==
  /\ Len(matches) > 0
  /\ Len(conversations) > 0
  /\ \E k \in 1..Len(conversations), j \in 1..Len(matches) :
       /\ matches[j].status = "accepted"
       /\ conversations[k].user1_id = matches[j].requester_id
       /\ conversations[k].user2_id = matches[j].recipient_id

\* C13: a successful createBuddyMatch(r,p) adds exactly one BuddyMatch row,
\* (r, p, pending), and changes nothing else: no other BuddyMatch row, no
\* Conversation, no Message.
C13_CreateMatchFrame ==
  [][(last'.op = "createBuddyMatch" /\ last'.error = NoError)
     => /\ Len(matches') = Len(matches) + 1
        /\ SubSeq(matches', 1, Len(matches)) = matches
        /\ matches'[Len(matches')].requester_id = last'.args[1]
        /\ matches'[Len(matches')].recipient_id = last'.args[2]
        /\ matches'[Len(matches')].status = "pending"
        /\ last'.ret = <<matches'[Len(matches')]>>
        /\ conversations' = conversations
        /\ messages' = messages
        /\ users' = users]_vars

\* C13 witness: a match has been requested while another match, a
\* conversation and nothing else were stored.
C13_Witness ==
  /\ last.op = "createBuddyMatch"
  /\ last.error = NoError
  /\ last.args[1] > last.args[2]
  /\ Len(matches) = 2
  /\ Len(conversations) = 1

\* C14: a successful updateBuddyMatchStatus(id, declined) changes only the
\* status and the updated_at of that match: the Conversation table and every
\* other BuddyMatch row stay as they were.
C14_DeclineFrame ==
  [][(/\ last'.op = "updateBuddyMatchStatus"
      /\ last'.error = NoError
      /\ last'.args[2] = "declined")
     => /\ conversations' = conversations
        /\ messages' = messages
        /\ Len(matches') = Len(matches)
        /\ \A k \in 1..Len(matches) :
             IF matches[k].id = last'.args[1]
             THEN /\ matches'[k].status = "declined"
                  /\ matches'[k].id = matches[k].id
                  /\ matches'[k].requester_id = matches[k].requester_id
                  /\ matches'[k].recipient_id = matches[k].recipient_id
             ELSE matches'[k] = matches[k]]_vars

\* C14 witness: the second of two pending matches has been declined and the
\* first one is still pending.
C14_Witness ==
  /\ last.op = "updateBuddyMatchStatus"
  /\ last.error = NoError
  /\ last.args[2] = "declined"
  /\ last.args[1] = 2
  /\ Len(matches) = 2
  /\ matches[1].status = "pending"
  /\ matches[2].status = "declined"

\* C15: a successful sendMessage inserts exactly one Message with status
\* 'sent' and then sets the conversation's updated_at: no write of
\* updated_at comes before the insert of its call, so whenever a send has
\* bumped updated_at the Message row of that send is stored.
C15_InsertBeforeUpdate ==
  /\ [](\A k \in 1..Len(conversations) :
          conversations[k].updated_at # conversations[k].created_at
          => \E m \in 1..Len(messages) :
               /\ messages[m].conversation_id = conversations[k].id
               /\ messages[m].status = "sent"
               /\ messages[m].created_at < conversations[k].updated_at)
  /\ [][messages' # messages
        => /\ Len(messages') = Len(messages) + 1
           /\ SubSeq(messages', 1, Len(messages)) = messages
           /\ messages'[Len(messages')].status = "sent"
           /\ conversations' = conversations]_vars
  /\ [][conversations' # conversations
        => /\ messages' = messages
           /\ last'.op = "sendMessage"
           /\ last'.error = NoError
           /\ Len(last'.ret) = 1
           /\ \E m \in 1..Len(messages) : messages[m] = last'.ret[1]
           /\ \A k \in 1..Len(conversations) :
                IF conversations[k].id = last'.ret[1].conversation_id
                THEN conversations'[k] =
                       [conversations[k] EXCEPT !.updated_at = now']
                ELSE conversations'[k] = conversations[k]]_vars

\* C15 witness: one send has returned after touching its conversation while
\* the message of a second send is stored and its touch is still to come.
C15_Witness ==
  /\ last.op = "sendMessage"
  /\ last.error = NoError
  /\ conversations[1].updated_at > last.ret[1].created_at
  /\ \E p \in Procs :
       /\ inflight[p].pc = 2
       /\ inflight[p].row # <<>>
       /\ inflight[p].row[1].created_at > last.ret[1].created_at
       /\ \E m \in 1..Len(messages) : messages[m] = inflight[p].row[1]

\* whether a conversation row is one of user u
IsConversationOf(c, u) == c.user1_id = u \/ c.user2_id = u

\* the messages of the conversations of user u, oldest first
MessagesOfUser(u) ==
  SelectSeq(messages, LAMBDA m :
    \E k \in 1..Len(conversations) :
      /\ conversations[k].id = m.conversation_id
      /\ IsConversationOf(conversations[k], u))

\* whether a list holds exactly the conversations of u, each one once, with
\* no updated_at before a later one
IsInboxOf(list, u) ==
  /\ \A k \in 1..Len(conversations) :
       IsConversationOf(conversations[k], u)
       => Cardinality({i \in 1..Len(list) : list[i] = conversations[k]}) = 1
  /\ \A i \in 1..Len(list) :
       /\ IsConversationOf(list[i], u)
       /\ \E k \in 1..Len(conversations) : conversations[k] = list[i]
  /\ \A i \in 1..(Len(list) - 1) :
       list[i].updated_at >= list[i + 1].updated_at

\* C16 as stated: getConversations(u) returns exactly the conversations in
\* which u is user1_id or user2_id, by updated_at descending, and the
\* conversation of u that the last completed send went to is its first
\* element.
C16_LastSentToIsFirst ==
  last.op = "getConversations"
  => LET u == last.args[1]
         mine == MessagesOfUser(u)
     IN /\ IsInboxOf(last.ret, u)
        /\ Len(mine) > 0
           => last.ret[1].id = mine[Len(mine)].conversation_id

\* C16 amended: getConversations(u) returns exactly the conversations in
\* which u is user1_id or user2_id, by updated_at descending; the
\* conversation C of u that the last completed send went to is its first
\* element for as long as the updated_at of C is later than that of every
\* other conversation of u, that is until a later send to another
\* conversation of u completes or another conversation of u is created.
C16_LastSentToIsFirstWhileLatest ==
  last.op = "getConversations"
  => LET u == last.args[1]
         mine == MessagesOfUser(u)
     IN /\ IsInboxOf(last.ret, u)
        /\ (/\ Len(mine) > 0
            /\ \A k \in 1..Len(conversations) :
                 (/\ IsConversationOf(conversations[k], u)
                  /\ conversations[k].id # mine[Len(mine)].conversation_id)
                 => \E c \in 1..Len(conversations) :
                      /\ conversations[c].id = mine[Len(mine)].conversation_id
                      /\ conversations[c].updated_at > conversations[k].updated_at)
           => last.ret[1].id = mine[Len(mine)].conversation_id

\* C16 witness: a user has sent to one conversation and then to another one,
\* and the list starts with the second of them, the first one following.
C16_Witness ==
  /\ last.op = "getConversations"
  /\ Len(last.ret) >= 2
  /\ LET mine == MessagesOfUser(last.args[1])
     IN /\ Len(mine) >= 2
        /\ mine[Len(mine)].conversation_id = last.ret[1].id
        /\ mine[1].conversation_id = last.ret[2].id
        /\ last.ret[1].updated_at > last.ret[2].updated_at

\* C17: for an existing conversation c whose messages by created_at
\* ascending are m_0 .. m_{n-1}, getMessages(c, limit, offset) returns
\* m_offset .. m_{min(offset+limit,n)-1} in that order, with limit = 100 and
\* offset = 0 when left out: no message of another conversation, the empty
\* list when offset >= n; it fails, with the conversation-not-found error,
\* only when c does not exist.
C17_GetMessagesPage ==
  last.op = "getMessages"
  => LET c == last.args[1]
         limit == IF last.args[2] = <<>> THEN 100 ELSE last.args[2][1]
         offset == IF last.args[3] = <<>> THEN 0 ELSE last.args[3][1]
         own == {k \in 1..Len(messages) : messages[k].conversation_id = c}
         n == Cardinality(own)
         stop == IF offset + limit < n THEN offset + limit ELSE n
     IN IF \E k \in 1..Len(conversations) : conversations[k].id = c
        THEN /\ last.error = NoError
             /\ \E m \in [1..n -> own] :
                  /\ \A i \in 1..n, j \in 1..n : i # j => m[i] # m[j]
                  /\ \A i \in 1..(n - 1) :
                       messages[m[i]].created_at <= messages[m[i + 1]].created_at
                  /\ Len(last.ret) = (IF stop > offset THEN stop - offset ELSE 0)
                  /\ \A i \in 1..Len(last.ret) :
                       last.ret[i] = messages[m[offset + i]]
             /\ \A i \in 1..Len(last.ret) : last.ret[i].conversation_id = c
             /\ offset >= n => last.ret = <<>>
        ELSE last.error = ErrConversationNotFound /\ last.ret = <<>>

\* C17 witness: of three messages of a conversation, two of them with the
\* same created_at, the one in the middle has come back for limit 1 and
\* offset 1.
C17_Witness ==
  /\ last.op = "getMessages"
  /\ last.args[2] = <<1>>
  /\ last.args[3] = <<1>>
  /\ Len(last.ret) = 1
  /\ \E a \in 1..Len(messages), b \in 1..Len(messages) :
       /\ a # b
       /\ messages[a].conversation_id = last.args[1]
       /\ messages[b].conversation_id = last.args[1]
       /\ messages[a].created_at < last.ret[1].created_at
       /\ messages[b].created_at = last.ret[1].created_at
       /\ messages[b] # last.ret[1]

\* the ids of the rows of a list
IdsOf(list) == {list[i].id : i \in 1..Len(list)}

\* whether user u meets every criterion that `input` supplies
MeetsCriteria(u, input) ==
  /\ input.location # <<>> => profiles[u].location = input.location[1]
  /\ input.skill_level # <<>> => profiles[u].skill_level = input.skill_level[1]
  /\ input.max_handicap_diff # <<>> =>
       \/ profiles[u].handicap = <<>>
       \/ /\ profiles[u].handicap[1] <= input.max_handicap_diff[1]
          /\ 0 - profiles[u].handicap[1] <= input.max_handicap_diff[1]
  /\ input.course_id # <<>> =>
       \E k \in 1..Len(favorites) :
         /\ favorites[k].user_id = u
         /\ favorites[k].course_id = input.course_id[1]
  /\ input.time_preference # <<>> =>
       \E k \in 1..Len(timePrefs) :
         /\ timePrefs[k].user_id = u
         /\ timePrefs[k].time_preference = input.time_preference[1]

\* C18 as stated: searchBuddies returns exactly the users that meet every
\* supplied criterion, each user once, for every input of the schema, an
\* empty-string location, course_id 0 and max_handicap_diff 0 included; all
\* users when no criterion is supplied.
C18_ExactlyTheMatchingUsers ==
  last.op = "searchBuddies"
  => /\ last.error = NoError
     /\ IdsOf(last.ret) = {u \in users : MeetsCriteria(u, last.args[1])}
     /\ Cardinality(IdsOf(last.ret)) = Len(last.ret)

\* the criteria of a search
Criteria ==
  {"location", "skill_level", "max_handicap_diff", "course_id",
   "time_preference"}

\* the inputs that supply one criterion of `input` and no other
SingleCriteria(input) ==
  {[field \in Criteria |-> IF field = one THEN input[field] ELSE <<>>] :
     one \in {field \in Criteria : input[field] # <<>>}}

\* C19: on every database state and for every set of criteria F, the users
\* searchBuddies(F) returns are the users that every search with one single
\* criterion of F returns on that state.
C19_SearchIsIntersection ==
  (last.op = "searchBuddies" /\ SingleCriteria(last.args[1]) # {})
  => IdsOf(last.ret) =
       {u \in users : \A single \in SingleCriteria(last.args[1]) :
                        u \in IdsOf(FilteredResults(single))}

\* C19 witness: a search by location and course has returned one of two
\* golfers of that location, the only one with the course as a favorite.
C19_Witness ==
  /\ last.op = "searchBuddies"
  /\ last.args[1].location = <<"SF">>
  /\ last.args[1].course_id = <<1>>
  /\ Cardinality(SingleCriteria(last.args[1])) = 2
  /\ IdsOf(last.ret) = {1}
  /\ profiles[2].location = "SF"
  /\ Len(favorites) = 1
  /\ favorites[1].user_id = 1
  /\ favorites[1].course_id = 1

\* C20 as stated: searchBuddies called with a course_id that no
\* UserFavoriteCourse row has returns the empty list and no error, whatever
\* the other criteria and whatever the course_id, 0 included.
C20_UnknownCourseGivesNothing ==
  (/\ last.op = "searchBuddies"
   /\ last.args[1].course_id # <<>>
   /\ \A k \in 1..Len(favorites) :
        favorites[k].course_id # last.args[1].course_id[1])
  => (last.ret = <<>> /\ last.error = NoError)

\* whether the handicap of user u is NULL or within d of zero
WithinHandicap(u, d) ==
  \/ profiles[u].handicap = <<>>
  \/ /\ profiles[u].handicap[1] <= d
     /\ 0 - profiles[u].handicap[1] <= d

\* C21: the max_handicap_diff criterion of searchBuddies never excludes a
\* user whose handicap is null, whatever the value (zero and negative ones
\* included), and lets a user with handicap h of either sign pass exactly
\* when |h| <= max_handicap_diff: the search with the criterion returns the
\* users of the search without it that pass.
C21_HandicapCriterion ==
  (last.op = "searchBuddies" /\ last.args[1].max_handicap_diff # <<>>)
  => LET input == last.args[1]
         without == [field \in Criteria |->
                       IF field = "max_handicap_diff" THEN <<>>
                       ELSE input[field]]
     IN IdsOf(last.ret) =
          {u \in IdsOf(FilteredResults(without)) :
             WithinHandicap(u, input.max_handicap_diff[1])}

\* C21 witness: a search with max_handicap_diff 7 alone has returned a golfer
\* of handicap -7 and one of no handicap.
C21_Witness ==
  /\ last.op = "searchBuddies"
  /\ last.args[1].max_handicap_diff = <<7>>
  /\ Cardinality(SingleCriteria(last.args[1])) = 1
  /\ IdsOf(last.ret) = {1, 2}
  /\ profiles[1].handicap = <<-7>>
  /\ profiles[2].handicap = <<>>

\* the fields of a registration that a stored row already holds
CollidingFields(input) ==
  {field \in {"email", "username"} :
     \E u \in users : profiles[u][field] = input[field]}

\* C22: in every reachable state no two User rows share an email and no two
\* share a username, whatever createUser and updateUser calls were made; a
\* createUser whose email or username is taken fails, inserts nothing, and
\* its error names exactly the colliding fields: email, username, or both.
C22_UniqueCredentials ==
  /\ [](\A u \in users, v \in users :
          u # v => /\ profiles[u].email # profiles[v].email
                   /\ profiles[u].username # profiles[v].username)
  /\ [][last'.op = "createUser"
        => LET input == last'.args[1]
               taken == CollidingFields(input)
           IN /\ taken = {"email"} =>
                   last'.error = "User with this email already exists"
              /\ taken = {"username"} =>
                   last'.error = "User with this username already exists"
              /\ taken = {"email", "username"} =>
                   last'.error =
                     "User with this email and username already exists"
              /\ taken # {} => (users' = users /\ profiles' = profiles)
              /\ taken = {} => last'.error = NoError]_vars

\* C22 witness: a registration with the email of one user and the username
\* of another one has been refused, its error naming both fields.
C22_Witness ==
  /\ last.op = "createUser"
  /\ last.error = "User with this email and username already exists"
  /\ \E u \in users, v \in users :
       /\ u # v
       /\ profiles[u].email = last.args[1].email
       /\ profiles[v].username = last.args[1].username
       /\ profiles[u].username # last.args[1].username

\* whether the step has changed, of the row of user id, exactly the fields
\* that input supplies (null where null is supplied) and its updated_at,
\* and no other row
ChangedSuppliedFieldsOnly(input) ==
  /\ users' = users
  /\ \A u \in users \ {input.id} : profiles'[u] = profiles[u]
  /\ profiles'[input.id].id = input.id
  /\ profiles'[input.id].updated_at = now'
  /\ profiles'[input.id].updated_at > profiles[input.id].updated_at
  /\ \A field \in {"email", "username", "full_name", "skill_level",
                   "handicap", "location", "bio", "home_course"} :
       IF input[field] = <<>>
       THEN profiles'[input.id][field] = profiles[input.id][field]
       ELSE profiles'[input.id][field] = input[field][1]

\* C23 as stated: updateUser(id, fields) changes exactly the supplied fields
\* plus updated_at on the user with that id, null included when null is
\* supplied for handicap, bio or home_course, and leaves the omitted fields
\* and the other users unchanged; it fails with the not-found error,
\* changing nothing, when no user has that id.
C23_UpdateSetsSuppliedFields ==
  [][last'.op = "updateUser"
     => LET input == last'.args[1]
        IN IF input.id \in users
           THEN last'.error = NoError /\ ChangedSuppliedFieldsOnly(input)
           ELSE /\ last'.error = "User with id ${input.id} not found"
                /\ users' = users
                /\ profiles' = profiles]_vars

\* whether input supplies an email or a username that another user holds
SuppliesTakenCredential(input) ==
  \E field \in {"email", "username"} :
    /\ input[field] # <<>>
    /\ \E u \in users \ {input.id} : profiles[u][field] = input[field][1]

\* C23 amended: updateUser(id, fields) on an existing user, with no email
\* and no username of another user among the fields, changes exactly the
\* supplied fields plus updated_at on that user (null stored where null is
\* supplied) and nothing else; with the email or the username of another
\* user it fails on the unique constraint of the store and changes nothing;
\* with an id of no user it fails with the not-found error and changes
\* nothing.
C23_UpdateSetsSuppliedFieldsUnlessTaken ==
  [][last'.op = "updateUser"
     => LET input == last'.args[1]
        IN IF input.id \notin users
           THEN /\ last'.error = "User with id ${input.id} not found"
                /\ users' = users
                /\ profiles' = profiles
           ELSE IF SuppliesTakenCredential(input)
           THEN /\ last'.error \notin {NoError,
                                       "User with id ${input.id} not found"}
                /\ users' = users
                /\ profiles' = profiles
           ELSE last'.error = NoError /\ ChangedSuppliedFieldsOnly(input)]_vars

\* C23 witness: an update of the second user with a null handicap, a new
\* location and no bio among its fields has stored the null and the
\* location and kept the bio.
C23_Witness ==
  /\ last.op = "updateUser"
  /\ last.error = NoError
  /\ last.args[1].id = 2
  /\ last.args[1].handicap = << <<>> >>
  /\ last.args[1].location = <<"LA">>
  /\ last.args[1].bio = <<>>
  /\ profiles[2].handicap = <<>>
  /\ profiles[2].location = "LA"
  /\ profiles[2].bio = <<"bio">>
  /\ profiles[2].updated_at > profiles[1].updated_at

\* the rows of coursesTable with a name and a location
CoursesAt(name, location) ==
  {k \in 1..Len(courses) :
     courses[k].name = name /\ courses[k].location = location}

\* C24: after any createCourse calls run one at a time no two Course rows
\* have both the same name and the same location; createCourse fails, and
\* inserts nothing, exactly when both name and location are those of an
\* existing course, and succeeds when only one of the two matches.
C24_UniqueNameAtLocation ==
  /\ [](\A j \in 1..Len(courses), k \in 1..Len(courses) :
          (courses[j].name = courses[k].name
           /\ courses[j].location = courses[k].location) => j = k)
  /\ [][last'.op = "createCourse"
        => LET input == last'.args[1]
           IN IF CoursesAt(input.name, input.location) # {}
              THEN /\ last'.error # NoError
                   /\ courses' = courses
              ELSE /\ last'.error = NoError
                   /\ Len(courses') = Len(courses) + 1
                   /\ SubSeq(courses', 1, Len(courses)) = courses
                   /\ courses'[Len(courses')].name = input.name
                   /\ courses'[Len(courses')].location = input.location]_vars

\* C24 witness: a course has been created with the name of one course and
\* the location of another one.
C24_Witness ==
  /\ last.op = "createCourse"
  /\ last.error = NoError
  /\ \E j \in 1..Len(courses), k \in 1..Len(courses) :
       /\ courses[j].name = last.args[1].name
       /\ courses[j].location # last.args[1].location
       /\ courses[k].location = last.args[1].location
       /\ courses[k].name # last.args[1].name

\* the rows of userFavoriteCoursesTable of a user and a course
FavoritesOf(u, c) ==
  {k \in 1..Len(favorites) :
     favorites[k].user_id = u /\ favorites[k].course_id = c}

\* the course with this id is in coursesTable
IsCourse(c) == \E k \in 1..Len(courses) : courses[k].id = c

\* C25: after any addFavoriteCourse calls run one at a time there is at most
\* one UserFavoriteCourse row per (user_id, course_id), while one course may
\* be the favorite of several users; a call fails with user-not-found before
\* course-not-found before already-in-favorites, and a failing call inserts
\* nothing.
C25_OneFavoritePerUserAndCourse ==
  /\ [](\A u \in UserIds, c \in 1..Len(courses) :
          Cardinality(FavoritesOf(u, c)) <= 1)
  /\ [][last'.op = "addFavoriteCourse"
        => LET input == last'.args[1]
               expected ==
                 CASE input.user_id \notin users -> ErrUserNotFound
                   [] ~IsCourse(input.course_id) -> ErrCourseNotFound
                   [] FavoritesOf(input.user_id, input.course_id) # {}
                        -> ErrAlreadyFavorite
                   [] OTHER -> NoError
           IN /\ last'.error = expected
              /\ expected # NoError => favorites' = favorites
              /\ expected = NoError
                   => /\ Len(favorites') = Len(favorites) + 1
                      /\ SubSeq(favorites', 1, Len(favorites)) = favorites
                      /\ favorites'[Len(favorites')].user_id = input.user_id
                      /\ favorites'[Len(favorites')].course_id
                           = input.course_id]_vars

\* C25 witness: a user has made a favorite of a course that is already the
\* favorite of another user.
C25_Witness ==
  /\ last.op = "addFavoriteCourse"
  /\ last.error = NoError
  /\ \E k \in 1..Len(favorites) :
       /\ favorites[k].course_id = last.args[1].course_id
       /\ favorites[k].user_id # last.args[1].user_id

\* the rows of userTimePreferencesTable of a user, and those of one value
PreferencesOf(u) == {k \in 1..Len(timePrefs) : timePrefs[k].user_id = u}
PreferencesAt(u, slot) ==
  {k \in PreferencesOf(u) : timePrefs[k].time_preference = slot}

\* C26: after any addTimePreference calls run one at a time each user has at
\* most one row per time_preference value, and so between 0 and 4 rows; a
\* call for a user that does not exist, or for a preference the user already
\* has, fails and inserts nothing.
C26_OnePreferencePerUserAndValue ==
  /\ [](\A u \in UserIds :
          /\ \A slot \in timePreferenceEnum :
               Cardinality(PreferencesAt(u, slot)) <= 1
          /\ Cardinality(PreferencesOf(u)) <= 4)
  /\ [][last'.op = "addTimePreference"
        => LET input == last'.args[1]
           IN /\ (input.user_id \notin users
                  \/ PreferencesAt(input.user_id, input.time_preference) # {})
                   => /\ last'.error # NoError
                      /\ timePrefs' = timePrefs]_vars

\* C26 witness: a user has all four preferences, and the call that asked for
\* one of them again was refused.
C26_Witness ==
  /\ last.op = "addTimePreference"
  /\ last.error = ErrPreferenceExists
  /\ Cardinality(PreferencesOf(last.args[1].user_id)) = 4

\* the rows of a buddy_matches table between a and b, in either direction
PairRows(table, a, b) ==
  SelectSeq(table, LAMBDA m : {m.requester_id, m.recipient_id} = {a, b})

\* the createBuddyMatch call in slot p has made its lookup and not its insert
LookedUp(p) == inflight[p].op = "createBuddyMatch" /\ inflight[p].pc = 1

\* C27: createBuddyMatch is a lookup followed by an insert, with no
\* uniqueness constraint on the pair: when the lookups of two calls for the
\* same unordered pair have both run before either insert, both calls succeed
\* and two BuddyMatch rows exist for the pair.
C27_BothRacingCallsSucceed ==
  [][\A p \in Procs : \A o \in Procs \ {p} :
       (/\ LookedUp(p)
        /\ inflight'[p].pc = 0
        /\ \/ /\ LookedUp(o)
              /\ {inflight[o].r, inflight[o].q}
                   = {inflight[p].r, inflight[p].q}
           \/ Len(PairRows(matches, inflight[p].r, inflight[p].q)) > 0)
       => /\ last' = Call("createBuddyMatch", <<inflight[p].r, inflight[p].q>>,
                          NoError, <<matches'[Len(matches')]>>)
          /\ Len(matches') = Len(matches) + 1
          /\ SubSeq(matches', 1, Len(matches)) = matches
          /\ Len(PairRows(matches', inflight[p].r, inflight[p].q))
               = Len(PairRows(matches, inflight[p].r, inflight[p].q)) + 1]_vars

\* C27 witness: createBuddyMatch(A, B) and createBuddyMatch(B, A) have both
\* returned a row, and the table holds the two rows.
C27_Witness ==
  /\ last.op = "createBuddyMatch"
  /\ last.error = NoError
  /\ \A p \in Procs : inflight[p].pc = 0
  /\ \E j \in 1..Len(matches), k \in 1..Len(matches) :
       /\ j < k
       /\ matches[j].requester_id = matches[k].recipient_id
       /\ matches[j].recipient_id = matches[k].requester_id

\* an updateBuddyMatchStatus call on the match with id i is under way
StatusUnderWay(i) ==
  \E p \in Procs :
    inflight[p].op = "updateBuddyMatchStatus" /\ inflight[p].i = i

\* C28: when two updateBuddyMatchStatus calls on the same pending match
\* interleave statement by statement, at most one of them succeeds and the
\* status is written only once (a match that has left pending is not written
\* again), and no Conversation stands for a match whose final status is
\* declined.
C28_StatusWrittenOnce ==
  /\ [][\A k \in 1..Len(matches) :
          matches[k].status # "pending" => matches'[k] = matches[k]]_vars
  /\ [](\A k \in 1..Len(matches) :
          (matches[k].status = "declined" /\ ~StatusUnderWay(matches[k].id))
            => Len(ConvsOfPair(conversations, matches[k].requester_id,
                               matches[k].recipient_id)) = 0)

\* the match in row k is accepted and its pair has no conversation
HalfAccepted(k) ==
  /\ matches[k].status = "accepted"
  /\ Len(ConvsOfPair(conversations, matches[k].requester_id,
                     matches[k].recipient_id)) = 0

\* the message in row m is later than the updated_at of its conversation
Untouched(m) ==
  \E c \in 1..Len(conversations) :
    /\ conversations[c].id = messages[m].conversation_id
    /\ conversations[c].updated_at < messages[m].created_at

\* a sendMessage call on the conversation with id c is under way
SendUnderWay(c) ==
  \E p \in Procs : inflight[p].op = "sendMessage" /\ inflight[p].c = c

\* C29: updateBuddyMatchStatus(id, accepted) writes the status before it
\* looks up and inserts the conversation, in separate steps with no
\* transaction: the conversation is inserted by a call whose UPDATE has
\* returned, in a later step than the status write, and a match left accepted
\* without a conversation stays so once no call works on it; likewise a
\* message is inserted in an earlier step than the updated_at write, and a
\* message left later than its conversation's updated_at stays so once no
\* sendMessage works on the conversation.
C29_HalfAppliedStatesPersist ==
  /\ [][Len(conversations') > Len(conversations)
        => /\ matches' = matches
           /\ \E p \in Procs :
                /\ inflight[p].op = "updateBuddyMatchStatus"
                /\ inflight[p].s = "accepted"
                /\ inflight[p].row # <<>>
                /\ inflight[p].row[1].status = "accepted"
                /\ inflight'[p].pc = 0]_vars
  /\ [][matches' # matches => conversations' = conversations]_vars
  /\ [][messages' # messages => conversations' = conversations]_vars
  /\ [][\A k \in 1..Len(matches) :
          (HalfAccepted(k) /\ ~StatusUnderWay(matches[k].id))
            => HalfAccepted(k)']_vars
  /\ [][\A m \in 1..Len(messages) :
          (Untouched(m) /\ ~SendUnderWay(messages[m].conversation_id))
            => Untouched(m)']_vars

\* C29 witness: no call is under way, a match is accepted with no
\* conversation for its pair, and a message is later than the updated_at of
\* its conversation.
C29_Witness ==
  /\ \A p \in Procs : inflight[p].pc = 0
  /\ \E k \in 1..Len(matches) : HalfAccepted(k)
  /\ \E m \in 1..Len(messages) : Untouched(m)

\* the last call has read the page of size k at a multiple of k
IsPageRead ==
  /\ last.op = "getMessages"
  /\ last.error = NoError
  /\ last.args[2] # <<>>
  /\ last.args[3] # <<>>
  /\ last.args[3][1] % last.args[2][1] = 0

\* C30: on a fixed database and for a page size k >= 1, the consecutive pages
\* getMessages(c, k, 0), (c, k, k), (c, k, 2k), ... hold every message of c
\* exactly once and in insertion order, also when messages of c have the same
\* created_at: every page is the slice of the messages of c in the order of
\* their inserts, and a page and the next one share no message.
C30_PagesInInsertionOrder ==
  /\ [](IsPageRead
        => last.ret = Page(MessagesOf(last.args[1]), last.args[2][1],
                           last.args[3][1]))
  /\ [][(/\ IsPageRead
         /\ IsPageRead'
         /\ last'.args[1] = last.args[1]
         /\ last'.args[2] = last.args[2]
         /\ last'.args[3][1] = last.args[3][1] + last.args[2][1])
        => \A i \in 1..Len(last.ret), j \in 1..Len(last'.ret) :
             last.ret[i] # last'.ret[j]]_vars
====
